---- MODULE Spec2Model ----
(***************************************************************************)
(* Job lifecycle of the LKS translation backend.                           *)
(*                                                                         *)
(* The repository holds three builds of translationController.ts:          *)
(*   "python" - subprocess executor, API-key auth, shared system user      *)
(*              (backend/src/controllers/translationController.ts 1-526)   *)
(*   "mock"   - copy-through executor, JWT auth, per-user ownership         *)
(*              (backend/src/controllers/translationController.ts 528-872) *)
(*   "api"    - remote-API executor, API-key auth, shared system user      *)
(*              (unnamed/part_006)                                         *)
(* The deployed build is chosen in Init.  Every await of the handlers is   *)
(* a separate step; the code between two awaits runs to completion, as on  *)
(* the Node.js event loop.                                                 *)
(***************************************************************************)
EXTENDS Integers, Sequences, FiniteSets, TLC

\* ---------------------------------------------------------------- bounds
MaxJobs == 2
MaxFaults == 2
MaxDispatch == 2
MinutesPerTick == 5
MaxClock == 20
MaxAttempts == 2
MaxTicks == 4
MaxRegistrations == 2
HoursPerTick == 12
MaxAuthClock == 36

JobIds == 1..MaxJobs
Invs == 1..MaxDispatch

\* ------------------------------------------------------------ principals
SystemUser == "system@api-key.user"
Users == {"u1", "u2", "adm"}
Role(u) == IF u = "adm" THEN "admin" ELSE "user"

Variants == {"python", "mock", "api"}

\* ----------------------------------------------------------------- files
NoPath == <<"none", 0>>
NoFile == <<"none", 0>>
UploadPath(r) == <<"uploads", r>>
TranslatedPath(j) == <<"translated", j>>
ResultPath(j) == <<"result", j>>
Paths == {UploadPath(r) : r \in JobIds} \cup {TranslatedPath(j) : j \in JobIds}
           \cup {ResultPath(j) : j \in JobIds}
SourceBytes(r) == <<"source", r>>
TranslatedBytes(j) == <<"translation", j>>

Null == "null"

\* os.tmpdir()/translate_${Date.now()}.py: the name is the millisecond in
\* which translateDocument was called, here identified with the first
\* invocation <<j, k>> that was called in that millisecond.  A script file
\* is known by the job whose paths its text holds.
TmpNames == JobIds \X Invs
NoName == <<0, 0>>
NoScript == [text |-> 0, exists |-> FALSE]

VARIABLES variant, extAvail, sysUser, hpc, caller, resp, jobs, dpc, derr,
          files, execRuns, faults, crashed, lastResp, ppc, tmpScript, req,
          tmpName, scripts, pyExit

\* the state of the browser client (SecurityUtils): the clock in minutes,
\* localStorage, and the times at which checkRateLimit returned true
VARIABLES clock, localStorage, grants

\* one call of TranslationService.pollJobStatus: its argument maxAttempts,
\* the counter attempts, whether the interval timer is set, the number of
\* status requests awaiting their answer, the answers received so far in the
\* order of their arrival, and the promise the call returned
VARIABLES maxAttempts, attempts, interval, inflight, answers, promise

\* the authentication server: which of the repository's servers is running
\* ("none" before it is started), the users it has stored in the order of
\* their creation (their email addresses), and the registration requests
VARIABLES authBuild, users, reg

\* the tokens of the server with the token blacklist: its clock in hours,
\* the rows of token_blacklist, the logout request, and the answer to one
\* verify or me request
VARIABLES authClock, blacklist, logout, lastAuth

server == <<variant, extAvail, sysUser, hpc, caller, resp, jobs, dpc, derr,
            files, execRuns, faults, crashed, lastResp, ppc, tmpScript, req,
            tmpName, scripts, pyExit>>

rateVars == <<clock, localStorage, grants>>

pollVars == <<maxAttempts, attempts, interval, inflight, answers, promise>>

browser == <<rateVars, pollVars>>

auth == <<authBuild, users, reg, authClock, blacklist, logout, lastAuth>>

vars == <<server, browser, auth>>

NoJob == [status |-> "none", owner |-> Null, orig |-> NoPath,
          tfile |-> NoPath, tpath |-> NoPath, err |-> Null,
          completed_at |-> Null, created_at |-> 0,
          source_language |-> Null, target_language |-> Null]

NoResp == [code |-> 0, status |-> Null]

\* ------------------------------------------------------------- requests
\* a multipart creation request: the uploaded file (its extension and its
\* size in bytes; ext "none" when the request has no file part) and the
\* body fields
MaxFileSize == 10485760
FileSizes == {10240, MaxFileSize + 1}
FileExts == {"none", "txt", "exe"}
DocumentTypes == {"txt", "general"}
Requests ==
    [ext : FileExts \ {"none"}, size : FileSizes, sourceLanguage : {"en", ""},
     targetLanguage : {"es", "x"}, documentType : DocumentTypes]
    \cup [ext : {"none"}, size : {0}, sourceLanguage : {"en", ""},
          targetLanguage : {"es", "x"}, documentType : DocumentTypes]
NoReq == [ext |-> "none", size |-> 0, sourceLanguage |-> Null,
          targetLanguage |-> Null, documentType |-> Null]

\* fileFilter: allowedTypes.includes(ext)
AllowedFileTypes == {"pdf", "docx", "xlsx", "txt"}
FileFilter(q) == q.ext \in AllowedFileTypes

\* limits.fileSize: a larger file fails with LIMIT_FILE_SIZE
WithinFileSize(q) == q.size <= MaxFileSize

\* upload.single('file') passes the request on: no file part, or a file
\* that is allowed and small enough (and is then stored in uploads/original)
UploadPasses(q) == q.ext = "none" \/ (FileFilter(q) /\ WithinFileSize(q))

\* body(...).trim().notEmpty().isLength({ min: 2, max: 10 })
ValidLanguage(l) == Len(l) >= 2 /\ Len(l) <= 10

\* body('documentType').trim().notEmpty().isIn(['pdf','docx','xlsx','txt'])
ValidDocumentType(d) == d \in {"pdf", "docx", "xlsx", "txt"}

\* validateTranslationJob: errors.isEmpty()
ValidationPasses(q) ==
    /\ ValidLanguage(q.sourceLanguage)
    /\ ValidLanguage(q.targetLanguage)
    /\ ValidDocumentType(q.documentType)
NoRead == [op |-> "none", caller |-> Null, job |-> 0, code |-> 0,
           msg |-> Null, status |-> Null, tfile |-> NoPath, bytes |-> NoFile]

\* one exit of a Python process as its handler saw it: the exit code,
\* whether the standard output held the success marker, and what the handler
\* made of it
NoExit == [handler |-> "none", job |-> 0, inv |-> 0, code |-> 0,
           marker |-> FALSE, answer |-> 0]

\* ------------------------------------------------------- rate limiter
\* checkRateLimit(identifier, maxRequests = 5, windowMinutes = 15)
MaxRequests == 5
WindowMinutes == 15

Identifiers == {"login", "upload"}

\* localStorage.getItem(key) === null
NoItem == [count |-> 0, firstRequest |-> 0]

\* a registration request: where its handler stands, the email and the
\* password of its body, and the status code and error of its answer
RegIds == 1..MaxRegistrations
NoReg == [pc |-> "idle", email |-> Null, password |-> Null, code |-> 0,
          error |-> Null, iat |-> 0]

\* a token is named by the registration whose 201 answer carried it; 0
\* stands for a request without an Authorization header
\* new Date(NaN)
InvalidDate == [valid |-> FALSE, time |-> 0]

NoLogout == [pc |-> "idle", token |-> 0, at |-> 0,
             expires_at |-> InvalidDate, code |-> 0, error |-> Null]
NoAuth == [op |-> "none", token |-> 0, code |-> 0, error |-> Null]

\* pollJobStatus has not been called
NoPromise == [state |-> "none", value |-> Null]

Init ==
    /\ variant \in Variants
    /\ extAvail \in BOOLEAN
    /\ (variant = "mock" => extAvail = FALSE)
    /\ sysUser \in BOOLEAN
    /\ (variant = "mock" => sysUser = FALSE)
    /\ hpc = [r \in JobIds |-> "idle"]
    /\ caller = [r \in JobIds |-> Null]
    /\ resp = [r \in JobIds |-> NoResp]
    /\ jobs = [j \in JobIds |-> NoJob]
    /\ dpc = [j \in JobIds |-> [k \in Invs |-> "none"]]
    /\ derr = [j \in JobIds |-> [k \in Invs |-> Null]]
    /\ files = [p \in Paths |-> NoFile]
    /\ execRuns = [j \in JobIds |-> 0]
    /\ faults = 0
    /\ crashed = FALSE
    /\ lastResp = NoRead
    /\ ppc = [j \in JobIds |-> "idle"]
    /\ tmpScript = FALSE
    /\ req = [r \in JobIds |-> NoReq]
    /\ tmpName = [j \in JobIds |-> [k \in Invs |-> NoName]]
    /\ scripts = [t \in TmpNames |-> NoScript]
    /\ pyExit = NoExit
    /\ clock = 0
    /\ localStorage = [id \in Identifiers |-> NoItem]
    /\ grants = [id \in Identifiers |-> <<>>]
    /\ maxAttempts = 0
    /\ attempts = 0
    /\ interval = FALSE
    /\ inflight = 0
    /\ answers = <<>>
    /\ promise = NoPromise
    /\ authBuild = "none"
    /\ users = <<>>
    /\ reg = [i \in RegIds |-> NoReg]
    /\ authClock = 0
    /\ blacklist = {}
    /\ logout = NoLogout
    /\ lastAuth = NoAuth

\* A query, file operation or external call may fail; the number of injected
\* faults in one behaviour is bounded.
CanFault == faults < MaxFaults
Fault == faults' = faults + 1


\* ------------------------------------------------- job creation handler
\* Creation requests are numbered in the order in which they are answered:
\* the handler of request r sends its response after those of the requests
\* with a lower number.  The handlers treat all requests alike, so every
\* run of the server is one of these runs up to the numbering.
InOrder(r) == \A q \in JobIds : q < r => hpc[q] = "done"

\* POST /process-translation with a request that passes upload.single,
\* handleUploadError and validateTranslationJob and has a file: the upload
\* middleware has stored the file (req.file.path) and processTranslation
\* runs to the first await of the deployed build.
ProcessTranslationStart(r) ==
    /\ ~crashed
    /\ hpc[r] = "idle"
    /\ \E q \in Requests :
          /\ q.ext # "none" /\ UploadPasses(q) /\ ValidationPasses(q)
          /\ req' = [req EXCEPT ![r] = q]
    /\ files' = [files EXCEPT ![UploadPath(r)] = SourceBytes(r)]
    /\ IF variant = "mock"
         THEN /\ \E u \in Users : caller' = [caller EXCEPT ![r] = u]
              /\ hpc' = [hpc EXCEPT ![r] = "insJob"]
         ELSE /\ caller' = [caller EXCEPT ![r] = SystemUser]
              /\ hpc' = [hpc EXCEPT ![r] = "selUser"]
    /\ UNCHANGED <<variant, extAvail, sysUser, resp, jobs, dpc, derr,
                   execRuns, faults, crashed, lastResp, ppc, tmpScript,
                   tmpName, scripts, pyExit, browser, auth>>

\* catch of processTranslation: 500, no job
RespondError(r) == [resp EXCEPT ![r] = [code |-> 500, status |-> Null]]

\* SELECT id FROM users WHERE email = 'system@api-key.user' has answered
SelectSystemUserDone(r) ==
    /\ ~crashed
    /\ hpc[r] = "selUser"
    /\ hpc' = [hpc EXCEPT ![r] = IF sysUser THEN "insJob" ELSE "insUser"]
    /\ UNCHANGED <<variant, extAvail, sysUser, caller, resp, jobs, dpc, derr,
                   files, execRuns, faults, crashed, lastResp, ppc, tmpScript,
                   req, tmpName, scripts, pyExit, browser, auth>>

\* a query on the users table (the SELECT or the INSERT) raises: catch, 500
SystemUserQueryFault(r) ==
    /\ ~crashed
    /\ InOrder(r)
    /\ hpc[r] \in {"selUser", "insUser"}
    /\ CanFault /\ Fault
    /\ hpc' = [hpc EXCEPT ![r] = "done"]
    /\ resp' = RespondError(r)
    /\ UNCHANGED <<variant, extAvail, sysUser, caller, jobs, dpc, derr,
                   files, execRuns, crashed, lastResp, ppc, tmpScript,
                   req, tmpName, scripts, pyExit, browser, auth>>

\* INSERT INTO users ... has answered; users.email is UNIQUE, so the insert
\* raises when another request created the system user in the meantime.
InsertSystemUserDone(r) ==
    /\ ~crashed
    /\ hpc[r] = "insUser"
    /\ IF sysUser
         THEN /\ InOrder(r)
              /\ hpc' = [hpc EXCEPT ![r] = "done"]
              /\ resp' = RespondError(r)
              /\ UNCHANGED sysUser
         ELSE /\ sysUser' = TRUE
              /\ hpc' = [hpc EXCEPT ![r] = "insJob"]
              /\ UNCHANGED resp
    /\ UNCHANGED <<variant, extAvail, caller, jobs, dpc, derr,
                   files, execRuns, faults, crashed, lastResp, ppc, tmpScript,
                   req, tmpName, scripts, pyExit, browser, auth>>

\* created_at TIMESTAMP DEFAULT CURRENT_TIMESTAMP: later inserts get later
\* timestamps
CurrentTimestamp == Cardinality({j \in JobIds : jobs[j].status # "none"}) + 1

\* the row written by INSERT INTO translation_jobs (..., status) VALUES
\* (..., 'pending')
PendingJob(r) ==
    [status |-> "pending", owner |-> caller[r], orig |-> UploadPath(r),
     tfile |-> NoPath, tpath |-> NoPath, err |-> Null, completed_at |-> Null,
     created_at |-> CurrentTimestamp,
     source_language |-> req[r].sourceLanguage,
     target_language |-> req[r].targetLanguage]

\* processTranslationAsync runs synchronously up to its first await: the
\* system-user SELECT in the API-key builds, the 'processing' UPDATE in the
\* JWT build.
DispatchStart == IF variant = "mock" THEN "toProcessing" ELSE "lookup"

\* res.status(202).json({ jobId, status: 'pending' }) directly after the
\* un-awaited call of processTranslationAsync
RespondAcceptedLate(r) == resp
RespondAccepted(r) == [resp EXCEPT ![r] = [code |-> 202, status |-> "pending"]]

\* the job INSERT has answered: dispatch is started and the response sent
InsertJobDone(r) ==
    /\ ~crashed
    /\ InOrder(r)
    /\ hpc[r] = "insJob"
    /\ jobs' = [jobs EXCEPT ![r] = PendingJob(r)]
    /\ dpc' = [dpc EXCEPT ![r][1] = DispatchStart]
    /\ resp' = RespondAccepted(r)
    /\ hpc' = [hpc EXCEPT ![r] = "done"]
    /\ UNCHANGED <<variant, extAvail, sysUser, caller, derr,
                   files, execRuns, faults, crashed, lastResp, ppc, tmpScript,
                   req, tmpName, scripts, pyExit, browser, auth>>

InsertJobFault(r) ==
    /\ ~crashed
    /\ InOrder(r)
    /\ hpc[r] = "insJob"
    /\ CanFault /\ Fault
    /\ hpc' = [hpc EXCEPT ![r] = "done"]
    /\ resp' = RespondError(r)
    /\ UNCHANGED <<variant, extAvail, sysUser, caller, jobs, dpc, derr,
                   files, execRuns, crashed, lastResp, ppc, tmpScript,
                   req, tmpName, scripts, pyExit, browser, auth>>


\* ------------------------------------------------------------- dispatch
\* processTranslationAsync(jobId, ...), invocation k for job j.
\*   lookup        awaiting the system-user SELECT     (API-key builds)
\*   toProcessing  awaiting UPDATE ... status = 'processing'
\*   exec          awaiting translateDocument
\*   toCompleted   awaiting UPDATE ... status = 'completed'
\*   toFailed      in the catch block, awaiting UPDATE ... status = 'failed'
\*   returned      left by the early return of the lookup
\*   done          the async function has resolved
\*   rejected      the async function has rejected
BackendWithoutCheck == IF variant = "mock" THEN "mock" ELSE "fallback"
Backend ==
    IF variant = "mock" THEN "mock"
    ELSE IF ~extAvail THEN "fallback"
    ELSE variant

\* catch (error) { await query('UPDATE ... status = failed, error_message') }
Catch(j, k, msg) ==
    /\ dpc' = [dpc EXCEPT ![j][k] = "toFailed"]
    /\ derr' = [derr EXCEPT ![j][k] = msg]

LookupDone(j, k) ==
    /\ ~crashed
    /\ dpc[j][k] = "lookup"
    /\ dpc' = [dpc EXCEPT ![j][k] = IF sysUser THEN "toProcessing" ELSE "returned"]
    /\ UNCHANGED <<variant, extAvail, sysUser, hpc, caller, resp, jobs, derr,
                   files, execRuns, faults, crashed, lastResp, ppc, tmpScript,
                   req, tmpName, scripts, pyExit, browser, auth>>

\* catch (error) { console.error(...); return; }
LookupFault(j, k) ==
    /\ ~crashed
    /\ dpc[j][k] = "lookup"
    /\ CanFault /\ Fault
    /\ dpc' = [dpc EXCEPT ![j][k] = "returned"]
    /\ UNCHANGED <<variant, extAvail, sysUser, hpc, caller, resp, jobs, derr,
                   files, execRuns, crashed, lastResp, ppc, tmpScript,
                   req, tmpName, scripts, pyExit, browser, auth>>

\* Date.now() in translateDocument: a new millisecond, or the millisecond in
\* which another execution that is still running was started
TempScriptNames(j, k) ==
    {<<j, k>>} \cup {tmpName[p[1]][p[2]] :
                       p \in {q \in JobIds \X Invs : dpc[q[1]][q[2]] = "exec"}}

\* UPDATE translation_jobs SET status = 'processing' WHERE id = jobId has
\* answered; translateDocument is called in the same turn.  The subprocess
\* build writes the temporary script t with fs.writeFileSync and spawns the
\* Python process.
ProcessingWritten(j, k) ==
    /\ ~crashed
    /\ dpc[j][k] = "toProcessing"
    /\ jobs' = [jobs EXCEPT ![j].status = "processing"]
    /\ execRuns' = [execRuns EXCEPT ![j] = @ + 1]
    /\ dpc' = [dpc EXCEPT ![j][k] = "exec"]
    /\ IF Backend = "python"
         THEN \E t \in TempScriptNames(j, k) :
                /\ tmpName' = [tmpName EXCEPT ![j][k] = t]
                /\ scripts' = [scripts EXCEPT ![t] = [text |-> j, exists |-> TRUE]]
         ELSE UNCHANGED <<tmpName, scripts>>
    /\ UNCHANGED <<variant, extAvail, sysUser, hpc, caller, resp, derr,
                   files, faults, crashed, lastResp, ppc, tmpScript, req,
                   pyExit, browser, auth>>

ProcessingWriteFault(j, k) ==
    /\ ~crashed
    /\ dpc[j][k] = "toProcessing"
    /\ CanFault /\ Fault
    /\ Catch(j, k, "db error")
    /\ UNCHANGED <<variant, extAvail, sysUser, hpc, caller, resp, jobs,
                   files, execRuns, crashed, lastResp, ppc, tmpScript,
                   req, tmpName, scripts, pyExit, browser, auth>>

\* ------------------------------------------------------------- executors
\* translateDocument of the JWT build: the timer callback copies the file
\* inside try/catch.
MockTimer(j, k) ==
    /\ ~crashed
    /\ dpc[j][k] = "exec" /\ Backend = "mock"
    /\ files' = [files EXCEPT ![TranslatedPath(j)] = files[jobs[j].orig]]
    /\ dpc' = [dpc EXCEPT ![j][k] = "toCompleted"]
    /\ UNCHANGED <<variant, extAvail, sysUser, hpc, caller, resp, jobs, derr,
                   execRuns, faults, crashed, lastResp, ppc, tmpScript,
                   req, tmpName, scripts, pyExit, browser, auth>>

MockTimerFault(j, k) ==
    /\ ~crashed
    /\ dpc[j][k] = "exec" /\ Backend = "mock"
    /\ CanFault /\ Fault
    /\ Catch(j, k, "io error")
    /\ UNCHANGED <<variant, extAvail, sysUser, hpc, caller, resp, jobs,
                   files, execRuns, crashed, lastResp, ppc, tmpScript,
                   req, tmpName, scripts, pyExit, browser, auth>>

\* the passthrough fallback of the API-key builds: the timer callback copies
\* the file without try/catch.
FallbackTimer(j, k) ==
    /\ ~crashed
    /\ dpc[j][k] = "exec" /\ Backend = "fallback"
    /\ files' = [files EXCEPT ![TranslatedPath(j)] = files[jobs[j].orig]]
    /\ dpc' = [dpc EXCEPT ![j][k] = "toCompleted"]
    /\ UNCHANGED <<variant, extAvail, sysUser, hpc, caller, resp, jobs, derr,
                   execRuns, faults, crashed, lastResp, ppc, tmpScript,
                   req, tmpName, scripts, pyExit, browser, auth>>

\* readFileSync/writeFileSync throws inside the timer callback: an uncaught
\* exception, handled by process.on('uncaughtException') with process.exit(1)
FallbackTimerFault(j, k) ==
    /\ ~crashed
    /\ dpc[j][k] = "exec" /\ Backend = "fallback"
    /\ CanFault /\ Fault
    /\ crashed' = TRUE
    /\ UNCHANGED <<variant, extAvail, sysUser, hpc, caller, resp, jobs, dpc,
                   derr, files, execRuns, lastResp, ppc, tmpScript,
                   req, tmpName, scripts, pyExit, browser, auth>>

\* the exit status of the Python process
ExitCodes == {0, 1}

\* a text that an executor hands over (a line of the Python process's
\* output, the body of a remote response) and that is longer than every
\* message worded in the code
LargeText ==
    "Traceback (most recent call last): " \o
    "File universal_translator.py, line 1, in translate_file ..."

\* what the subprocess printed: whether the output contains "SUCCESS:", and
\* what follows "ERROR:" if it is there
PyOutputs == [success : BOOLEAN, error : {"absent", "empty", "large"}]

\* code === 0 && output.trim().includes('SUCCESS:')
PythonSucceededByMarker(code, out) == out.success
PythonSucceeded(code, out) == code = 0 /\ out.success

\* errorMatch ? errorMatch[1].trim() : `Python process exited with code ...`
PythonErrorMessage(out) ==
    CASE out.error = "absent" -> "Python process exited with code"
      [] out.error = "empty" -> ""
      [] out.error = "large" -> LargeText

\* fs.unlinkSync(tempScriptPath) inside try/catch, by invocation <<j, k>>.
\* The text of a removed script is kept while a Python process that was
\* started with it is still running.
UnlinkScript(j, k) ==
    LET t == tmpName[j][k]
        others == {p \in (JobIds \X Invs) \ {<<j, k>>} :
                     dpc[p[1]][p[2]] = "exec" /\ tmpName[p[1]][p[2]] = t}
    IN [scripts EXCEPT ![t] = IF others = {} THEN NoScript
                              ELSE [text |-> @.text, exists |-> FALSE]]

\* the promise has settled: tempScriptPath is out of scope
ForgetName(j, k) == [tmpName EXCEPT ![j][k] = NoName]

\* pythonProcess.on('close'): the script is removed.  The Python process
\* ran the text found in its script file, which holds the paths of job
\* scripts[t].text; when it reports success the translator has written its
\* result to `wrote` (translate_file returns the path it chose).
CloseHandler(j, k, code, out, wrote) ==
    /\ files' = IF out.success
                  THEN [files EXCEPT ![wrote] =
                           TranslatedBytes(scripts[tmpName[j][k]].text)]
                  ELSE files
    /\ IF PythonSucceeded(code, out)
         THEN /\ dpc' = [dpc EXCEPT ![j][k] = "toCompleted"]
              /\ UNCHANGED derr
         ELSE Catch(j, k, PythonErrorMessage(out))
    /\ scripts' = UnlinkScript(j, k)
    /\ tmpName' = ForgetName(j, k)
    /\ UNCHANGED <<variant, extAvail, sysUser, hpc, caller, resp, jobs,
                   execRuns, faults, crashed, lastResp, ppc, tmpScript, req,
                   browser, auth>>

PythonClose(j, k) ==
    /\ ~crashed
    /\ dpc[j][k] = "exec" /\ Backend = "python"
    /\ \E code \in ExitCodes, out \in PyOutputs,
          wrote \in {TranslatedPath(scripts[tmpName[j][k]].text),
                     ResultPath(scripts[tmpName[j][k]].text)} :
          CloseHandler(j, k, code, out, wrote)
    /\ UNCHANGED pyExit

\* spawn fails.  Either Node emits 'error' (reject(error)) and then 'close',
\* whose handler removes the script, or no 'close' follows (spawn throws
\* inside the promise executor): the promise rejects all the same and the
\* script stays.
PythonSpawnError(j, k, closeFollows) ==
    /\ ~crashed
    /\ dpc[j][k] = "exec" /\ Backend = "python"
    /\ CanFault /\ Fault
    /\ Catch(j, k, "spawn error")
    /\ scripts' = IF closeFollows THEN UnlinkScript(j, k) ELSE scripts
    /\ tmpName' = ForgetName(j, k)
    /\ UNCHANGED <<variant, extAvail, sysUser, hpc, caller, resp, jobs,
                   files, execRuns, crashed, lastResp, ppc, tmpScript, req,
                   pyExit, browser, auth>>

\* one run of the remote-API executor as the network made it: whether the
\* POST got a response, the response's status, whether its JSON holds a
\* translatedFileUrl, and whether the GET of that URL answered ok
ApiStatuses == {200, 500}
ApiCalls == [fetched : BOOLEAN, status : ApiStatuses, url : BOOLEAN,
             download : BOOLEAN]

\* response.ok
ResponseOk(status) == status >= 200 /\ status <= 299

\* `External API error: ${response.status} - ${errorText}`
ApiErrorMessage(status) ==
    CASE status = 500 -> "External API error: 500 - " \o LargeText

\* the message of the error translateDocument throws, Null when it returns
ApiThrows(call) ==
    IF ~call.fetched THEN "fetch failed"
    ELSE IF ~ResponseOk(call.status) THEN ApiErrorMessage(call.status)
    ELSE IF ~call.url THEN "External API did not return a translated file URL"
    ELSE IF ~call.download THEN "Failed to download translated file"
    ELSE Null

\* the remote API answered ok with a translatedFileUrl and the download
\* succeeded: fs.writeFileSync(targetPath, ...)
ApiDone(j, k) ==
    /\ ~crashed
    /\ dpc[j][k] = "exec" /\ Backend = "api"
    /\ \E call \in ApiCalls : ApiThrows(call) = Null
    /\ files' = [files EXCEPT ![TranslatedPath(j)] = TranslatedBytes(j)]
    /\ dpc' = [dpc EXCEPT ![j][k] = "toCompleted"]
    /\ UNCHANGED <<variant, extAvail, sysUser, hpc, caller, resp, jobs, derr,
                   execRuns, faults, crashed, lastResp, ppc, tmpScript,
                   req, tmpName, scripts, pyExit, browser, auth>>

ApiErrors == {ApiThrows(call) : call \in ApiCalls} \ {Null}

\* every throw inside translateDocument's try block is rethrown
ApiFail(j, k) ==
    /\ ~crashed
    /\ dpc[j][k] = "exec" /\ Backend = "api"
    /\ \E msg \in ApiErrors : Catch(j, k, msg)
    /\ UNCHANGED <<variant, extAvail, sysUser, hpc, caller, resp, jobs,
                   files, execRuns, faults, crashed, lastResp, ppc, tmpScript,
                   req, tmpName, scripts, pyExit, browser, auth>>

\* ------------------------------------------------------ final status
\* UPDATE ... SET status = 'completed', translated_filename,
\* translated_file_path, completed_at = CURRENT_TIMESTAMP WHERE id = jobId
CompletedRowMovingOriginal(row, j) ==
    [row EXCEPT !.status = "completed", !.tfile = TranslatedPath(j),
                !.tpath = TranslatedPath(j), !.completed_at = "now",
                !.orig = TranslatedPath(j)]
CompletedRow(row, j) ==
    [row EXCEPT !.status = "completed", !.tfile = TranslatedPath(j),
                !.tpath = TranslatedPath(j), !.completed_at = "now"]

\* UPDATE ... SET status = 'failed', error_message = error.message
FailedRow(row, msg) ==
    [row EXCEPT !.status = "failed", !.err = msg]

CompletedWritten(j, k) ==
    /\ ~crashed
    /\ dpc[j][k] = "toCompleted"
    /\ jobs' = [jobs EXCEPT ![j] = CompletedRow(@, j)]
    /\ dpc' = [dpc EXCEPT ![j][k] = "done"]
    /\ UNCHANGED <<variant, extAvail, sysUser, hpc, caller, resp, derr,
                   files, execRuns, faults, crashed, lastResp, ppc, tmpScript,
                   req, tmpName, scripts, pyExit, browser, auth>>

CompletedWriteFault(j, k) ==
    /\ ~crashed
    /\ dpc[j][k] = "toCompleted"
    /\ CanFault /\ Fault
    /\ Catch(j, k, "db error")
    /\ UNCHANGED <<variant, extAvail, sysUser, hpc, caller, resp, jobs,
                   files, execRuns, crashed, lastResp, ppc, tmpScript,
                   req, tmpName, scripts, pyExit, browser, auth>>

FailedWritten(j, k) ==
    /\ ~crashed
    /\ dpc[j][k] = "toFailed"
    /\ jobs' = [jobs EXCEPT ![j] = FailedRow(@, derr[j][k])]
    /\ dpc' = [dpc EXCEPT ![j][k] = "done"]
    /\ UNCHANGED <<variant, extAvail, sysUser, hpc, caller, resp, derr,
                   files, execRuns, faults, crashed, lastResp, ppc, tmpScript,
                   req, tmpName, scripts, pyExit, browser, auth>>

\* the UPDATE inside the catch block raises: processTranslationAsync
\* rejects, nobody awaits it, and process.on('unhandledRejection') calls
\* process.exit(1)
FailedWriteFault(j, k) ==
    /\ ~crashed
    /\ dpc[j][k] = "toFailed"
    /\ CanFault /\ Fault
    /\ dpc' = [dpc EXCEPT ![j][k] = "rejected"]
    /\ crashed' = TRUE
    /\ UNCHANGED <<variant, extAvail, sysUser, hpc, caller, resp, jobs,
                   derr, files, execRuns, lastResp, ppc, tmpScript,
                   req, tmpName, scripts, pyExit, browser, auth>>

Create ==
    \E r \in JobIds :
        \/ ProcessTranslationStart(r)
        \/ SelectSystemUserDone(r)
        \/ SystemUserQueryFault(r)
        \/ InsertSystemUserDone(r)
        \/ InsertJobDone(r)
        \/ InsertJobFault(r)

Dispatch ==
    \E j \in JobIds, k \in Invs :
        \/ LookupDone(j, k)
        \/ LookupFault(j, k)
        \/ ProcessingWritten(j, k)
        \/ ProcessingWriteFault(j, k)
        \/ CompletedWritten(j, k)
        \/ CompletedWriteFault(j, k)
        \/ FailedWritten(j, k)
        \/ FailedWriteFault(j, k)

Execute ==
    \E j \in JobIds, k \in Invs :
        \/ MockTimer(j, k)
        \/ MockTimerFault(j, k)
        \/ FallbackTimer(j, k)
        \/ FallbackTimerFault(j, k)
        \/ PythonClose(j, k)
        \/ \E closeFollows \in BOOLEAN : PythonSpawnError(j, k, closeFollows)
        \/ ApiDone(j, k)
        \/ ApiFail(j, k)

Next == Create \/ Dispatch \/ Execute

Spec == Init /\ [][Next]_vars


\* The event loop runs every callback whose event has arrived: a database
\* query is answered and a timer fires.  When the Python process exits or
\* the remote API answers is up to them, so the steps PythonClose,
\* PythonSpawnError, ApiDone and ApiFail carry no fairness.
Timers == \E j \in JobIds, k \in Invs : MockTimer(j, k) \/ FallbackTimer(j, k)

SpecLive ==
    Spec /\ WF_vars(Create) /\ WF_vars(Dispatch) /\ WF_vars(Timers)

\* ------------------------------------------------------- read handlers
ReadCallers == IF variant = "mock" THEN Users ELSE {SystemUser}

\* res.status(code).json({ success, message, data }) or res.download(...)
Answer(op, c, j, code, msg, st, tf, by) ==
    [op |-> op, caller |-> c, job |-> j, code |-> code, msg |-> msg,
     status |-> st, tfile |-> tf, bytes |-> by]

JobNotFoundMessage == "Translation job not found"
SystemUserNotFoundMessage == "System user not found"
ForbiddenMessage == "You do not have permission to access this file"
NotCompletedMessage == "Translation is not yet completed. Current status:"
FileMissingMessageGeneric == "Translation job not found"
FileMissingMessage == "Translated file not found on server"

\* getJobStatus of the JWT build: SELECT ... WHERE id = $1 AND user_id = $2
JwtStatusVisibleAnyOwner(c, j) == jobs[j].status # "none"
JwtStatusVisible(c, j) == jobs[j].status # "none" /\ jobs[j].owner = c

JwtGetJobStatus(c, j) ==
    IF ~JwtStatusVisible(c, j)
      THEN Answer("getJobStatus", c, j, 404, JobNotFoundMessage, Null, NoPath, NoFile)
      ELSE Answer("getJobStatus", c, j, 200, Null, jobs[j].status, jobs[j].tfile, NoFile)

\* getJobStatus of the API-key builds: system user looked up, then
\* SELECT ... WHERE id = $1
ApiKeyGetJobStatus(c, j) ==
    IF ~sysUser
      THEN Answer("getJobStatus", c, j, 404, SystemUserNotFoundMessage, Null, NoPath, NoFile)
    ELSE IF jobs[j].status = "none"
      THEN Answer("getJobStatus", c, j, 404, JobNotFoundMessage, Null, NoPath, NoFile)
    ELSE Answer("getJobStatus", c, j, 200, Null, jobs[j].status, jobs[j].tfile, NoFile)

\* fs.existsSync(job.translated_file_path): false for a missing path
ExistsSync(p) == p \in Paths /\ files[p] # NoFile

\* job.status !== 'completed' is answered 400
ReadyToSendWhatever(j) == TRUE
ReadyToSend(j) == jobs[j].status = "completed"

\* the checks of downloadFile that follow the authorization check, the same
\* in every build: status, then fs.existsSync, then res.download
SendFile(c, j) ==
    IF ~ReadyToSend(j)
      THEN Answer("downloadFile", c, j, 400, NotCompletedMessage, jobs[j].status, NoPath, NoFile)
    ELSE IF ~ExistsSync(jobs[j].tpath)
      THEN Answer("downloadFile", c, j, 404, FileMissingMessage, Null, NoPath, NoFile)
    ELSE Answer("downloadFile", c, j, 200, Null, Null, jobs[j].tfile, files[jobs[j].tpath])

\* downloadFile of the JWT build: job.user_id !== userId && !isAdmin
JwtDownloadFile(c, j) ==
    IF jobs[j].status = "none"
      THEN Answer("downloadFile", c, j, 404, JobNotFoundMessage, Null, NoPath, NoFile)
    ELSE IF jobs[j].owner # c /\ Role(c) # "admin"
      THEN Answer("downloadFile", c, j, 403, ForbiddenMessage, Null, NoPath, NoFile)
    ELSE SendFile(c, j)

\* downloadFile of the API-key builds: isAdmin = true, no ownership check
ApiKeyDownloadFile(c, j) ==
    IF ~sysUser
      THEN Answer("downloadFile", c, j, 404, SystemUserNotFoundMessage, Null, NoPath, NoFile)
    ELSE IF jobs[j].status = "none"
      THEN Answer("downloadFile", c, j, 404, JobNotFoundMessage, Null, NoPath, NoFile)
    ELSE SendFile(c, j)

GetJobStatus(c, j) ==
    /\ ~crashed
    /\ c \in ReadCallers
    /\ lastResp' = IF variant = "mock" THEN JwtGetJobStatus(c, j)
                                       ELSE ApiKeyGetJobStatus(c, j)
    /\ UNCHANGED <<variant, extAvail, sysUser, hpc, caller, resp, jobs, dpc,
                   derr, files, execRuns, faults, crashed, ppc, tmpScript,
                   req, tmpName, scripts, pyExit, browser, auth>>

DownloadFile(c, j) ==
    /\ ~crashed
    /\ c \in ReadCallers
    /\ lastResp' = IF variant = "mock" THEN JwtDownloadFile(c, j)
                                       ELSE ApiKeyDownloadFile(c, j)
    /\ UNCHANGED <<variant, extAvail, sysUser, hpc, caller, resp, jobs, dpc,
                   derr, files, execRuns, faults, crashed, ppc, tmpScript,
                   req, tmpName, scripts, pyExit, browser, auth>>

ReadFaultMessage(op) ==
    IF op = "getJobStatus" THEN "Failed to fetch job status"
    ELSE "Failed to download file"

\* a query of a read handler raises: catch, 500
ReadFault(op, c, j) ==
    /\ ~crashed
    /\ c \in ReadCallers
    /\ CanFault /\ Fault
    /\ lastResp' = Answer(op, c, j, 500, ReadFaultMessage(op), Null, NoPath, NoFile)
    /\ UNCHANGED <<variant, extAvail, sysUser, hpc, caller, resp, jobs, dpc,
                   derr, files, execRuns, crashed, ppc, tmpScript,
                   req, tmpName, scripts, pyExit, browser, auth>>

Read ==
    \E c \in Users \cup {SystemUser}, j \in JobIds :
        \/ GetJobStatus(c, j)
        \/ DownloadFile(c, j)
        \/ \E op \in {"getJobStatus", "downloadFile"} : ReadFault(op, c, j)

\* the lifecycle observed by one read request: lastResp is the answer the
\* observer got, in the state it was computed from
ReadNext == lastResp = NoRead /\ (Next \/ Read)

SpecRead == Init /\ [][ReadNext]_vars

\* ------------------------------------------------ dispatch invoked again
\* processTranslationAsync called once more for a job it was already called
\* for: the function starts the same way whatever the job's status is.
\* One job per behaviour is dispatched again.
Redispatch(j, k) ==
    /\ ~crashed
    /\ k > 1
    /\ dpc[j][k] = "none" /\ dpc[j][k - 1] # "none"
    /\ \A i \in JobIds \ {j} : dpc[i][2] = "none"
    /\ dpc' = [dpc EXCEPT ![j][k] = DispatchStart]
    /\ UNCHANGED <<variant, extAvail, sysUser, hpc, caller, resp, jobs, derr,
                   files, execRuns, faults, crashed, lastResp, ppc, tmpScript,
                   req, tmpName, scripts, pyExit, browser, auth>>

SpecRedispatch ==
    Init /\ [][Next \/ \E j \in JobIds, k \in Invs : Redispatch(j, k)]_vars


\* ------------------------------------------- processPythonTranslation
\* The handler of the second subprocess integration; req.params.jobId = j.
\* It writes temp_translate.py and starts `python temp_translate.py`.
ProcessPythonTranslationStart(j) ==
    /\ ~crashed
    /\ ppc[j] = "idle"
    /\ tmpScript' = TRUE
    /\ ppc' = [ppc EXCEPT ![j] = "exec"]
    /\ UNCHANGED <<variant, extAvail, sysUser, hpc, caller, resp, jobs, dpc,
                   derr, files, execRuns, faults, crashed, lastResp,
                   req, tmpName, scripts, pyExit, browser, auth>>

PythonOutcomes == {"error", "success", "errorOutput", "unexpected"}

\* stdout of `python temp_translate.py`: whether it contains "SUCCESS:" and
\* what the trimmed output starts with
ExecOutputs ==
    {o \in [success : BOOLEAN, head : {"SUCCESS:", "ERROR:", "other"}] :
        o.head = "SUCCESS:" => o.success}

\* the branches of the exec callback: `error` is set when the process did
\* not exit with status 0; then output.startsWith('SUCCESS:'), then
\* output.startsWith('ERROR:')
ExecOutcome(code, out) ==
    IF code # 0 THEN "error"
    ELSE IF out.head = "SUCCESS:" THEN "success"
    ELSE IF out.head = "ERROR:" THEN "errorOutput"
    ELSE "unexpected"

\* res.status(200) after the UPDATE, res.status(500) in every other branch
ExecAnswer(outcome) == IF outcome = "success" THEN 200 ELSE 500

\* UPDATE translation_jobs SET status = 'completed', translated_file_path,
\* completed_at = CURRENT_TIMESTAMP WHERE id = jobId
PythonCompletedRow(row, path) ==
    IF row.status = "none" THEN row
    ELSE [row EXCEPT !.status = "completed", !.tpath = path,
                     !.completed_at = "now"]

\* the exec callback: unlink the script, then branch on error and stdout.
\* fs.unlink rejects when the script is already gone, and the callback is
\* an async function nobody awaits.
ExecCallback(j, outcome) ==
    /\ ~crashed
    /\ ppc[j] = "exec"
    /\ outcome \in PythonOutcomes
    /\ ppc' = [ppc EXCEPT ![j] = "done"]
    /\ IF ~tmpScript
         THEN /\ crashed' = TRUE
              /\ UNCHANGED <<tmpScript, jobs, files>>
         ELSE /\ tmpScript' = FALSE
              /\ UNCHANGED crashed
              /\ IF outcome = "success"
                   THEN /\ files' = [files EXCEPT ![ResultPath(j)] = TranslatedBytes(j)]
                        /\ jobs' = [jobs EXCEPT ![j] = PythonCompletedRow(@, ResultPath(j))]
                   ELSE UNCHANGED <<jobs, files>>
    /\ UNCHANGED <<variant, extAvail, sysUser, hpc, caller, resp, dpc,
                   derr, execRuns, faults, lastResp, req, tmpName, scripts,
                   browser, auth>>

ProcessPythonTranslationExit(j, outcome) ==
    /\ ExecCallback(j, outcome)
    /\ UNCHANGED pyExit

\* the UPDATE inside the exec callback raises: the async callback rejects
\* and process.on('unhandledRejection') calls process.exit(1)
ProcessPythonTranslationUpdateFault(j) ==
    /\ ~crashed
    /\ ppc[j] = "exec"
    /\ tmpScript
    /\ jobs[j].status # "none"
    /\ CanFault /\ Fault
    /\ tmpScript' = FALSE
    /\ files' = [files EXCEPT ![ResultPath(j)] = TranslatedBytes(j)]
    /\ ppc' = [ppc EXCEPT ![j] = "done"]
    /\ crashed' = TRUE
    /\ UNCHANGED <<variant, extAvail, sysUser, hpc, caller, resp, jobs, dpc,
                   derr, execRuns, lastResp, req, tmpName, scripts, pyExit,
                   browser, auth>>

PythonHandler ==
    \E j \in JobIds :
        \/ ProcessPythonTranslationStart(j)
        \/ \E code \in ExitCodes, out \in ExecOutputs :
              ProcessPythonTranslationExit(j, ExecOutcome(code, out))
        \/ ProcessPythonTranslationUpdateFault(j)

SpecPython == Init /\ [][Next \/ PythonHandler]_vars

\* ------------------------------------------- one subprocess exit observed
\* pythonProcess.on('close') of translateDocument, with the exit it handled
\* and the way its promise settled (200 resolve, 500 reject) put on record
PythonCloseObserved(j, k) ==
    /\ ~crashed
    /\ dpc[j][k] = "exec" /\ Backend = "python"
    /\ \E code \in ExitCodes, out \in PyOutputs,
          wrote \in {TranslatedPath(scripts[tmpName[j][k]].text),
                     ResultPath(scripts[tmpName[j][k]].text)} :
          /\ CloseHandler(j, k, code, out, wrote)
          /\ pyExit' = [handler |-> "translateDocument", job |-> j, inv |-> k,
                        code |-> code, marker |-> out.success,
                        answer |-> IF dpc'[j][k] = "toCompleted" THEN 200 ELSE 500]

\* the exec callback of processPythonTranslation, with the exit it handled
\* and the status of its response put on record
ExecCallbackObserved(j) ==
    /\ tmpScript
    /\ \E code \in ExitCodes, out \in ExecOutputs :
          /\ ExecCallback(j, ExecOutcome(code, out))
          /\ pyExit' = [handler |-> "processPythonTranslation", job |-> j,
                        inv |-> 0, code |-> code, marker |-> out.success,
                        answer |-> ExecAnswer(ExecOutcome(code, out))]

ObservedExit ==
    \/ \E j \in JobIds, k \in Invs : PythonCloseObserved(j, k)
    \/ \E j \in JobIds : ExecCallbackObserved(j)

\* processPythonTranslation is called while no other call of it is open;
\* the calls are numbered in the order in which they are made
SinglePythonCall ==
    \E j \in JobIds :
        /\ \A i \in JobIds : ppc[i] # "exec"
        /\ \A i \in JobIds : i < j => ppc[i] # "idle"
        /\ ProcessPythonTranslationStart(j)

\* the steps of the lifecycle in which no query, file operation or spawn
\* fails
FaultFree ==
    \/ \E r \in JobIds :
          \/ ProcessTranslationStart(r)
          \/ SelectSystemUserDone(r)
          \/ InsertSystemUserDone(r)
          \/ InsertJobDone(r)
    \/ \E j \in JobIds, k \in Invs :
          \/ LookupDone(j, k)
          \/ ProcessingWritten(j, k)
          \/ CompletedWritten(j, k)
          \/ FailedWritten(j, k)
          \/ MockTimer(j, k)
          \/ FallbackTimer(j, k)
          \/ PythonClose(j, k)
          \/ ApiDone(j, k)
          \/ ApiFail(j, k)

\* the lifecycle and the second integration up to the first observed exit
ExecutorNext == pyExit = NoExit /\ (FaultFree \/ SinglePythonCall \/ ObservedExit)

SpecExecutor == Init /\ [][ExecutorNext]_vars

\* ----------------------------------------- SecurityUtils.checkRateLimit
\* Date.now(), in milliseconds
DateNow == clock * 60 * 1000

\* windowMinutes * 60 * 1000
WindowMs == WindowMinutes * 60 * 1000

\* the item checkRateLimit leaves in localStorage and the value it returns
RateLimitResult(stored, currentTime) ==
    IF stored = NoItem
      THEN [item |-> [count |-> 1, firstRequest |-> currentTime], ok |-> TRUE]
    ELSE IF currentTime - stored.firstRequest > WindowMs
      THEN [item |-> [count |-> 1, firstRequest |-> currentTime], ok |-> TRUE]
    ELSE IF stored.count >= MaxRequests
      THEN [item |-> stored, ok |-> FALSE]
    ELSE [item |-> [count |-> stored.count + 1,
                    firstRequest |-> stored.firstRequest], ok |-> TRUE]

\* the grants that can still share a window of WindowMinutes with a later one
Recent(s, t) == SelectSeq(s, LAMBDA g : g + WindowMinutes >= t)

\* one call of checkRateLimit(id)
CheckRateLimit(id) ==
    LET r == RateLimitResult(localStorage[id], DateNow)
    IN /\ localStorage' = [localStorage EXCEPT ![id] = r.item]
       /\ grants' = [grants EXCEPT ![id] = IF r.ok THEN Append(@, clock) ELSE @]
       /\ UNCHANGED <<server, auth, clock, pollVars>>

\* time passes
Tick ==
    /\ clock + MinutesPerTick <= MaxClock
    /\ clock' = clock + MinutesPerTick
    /\ grants' = [id \in Identifiers |-> Recent(grants[id], clock')]
    /\ UNCHANGED <<server, auth, localStorage, pollVars>>

RateNext == Tick \/ \E id \in Identifiers : CheckRateLimit(id)

SpecRate == Init /\ [][RateNext]_vars

\* ------------------------------------ TranslationService.pollJobStatus
\* what a status request comes back with: the job's status, or "error" when
\* getTranslationStatus throws
PollAnswers == {"processing", "completed", "failed", "error"}

TimeoutMessage == "Translation timeout: Job took too long to complete"

\* resolve(v) and reject(v) settle a promise that is still pending
Settle(p, state, value) ==
    IF p.state = "pending" THEN [state |-> state, value |-> value] ELSE p

\* pollJobStatus(jobId, onUpdate, n): attempts = 0, new Promise, setInterval
PollJobStatus(n) ==
    /\ promise = NoPromise
    /\ maxAttempts' = n
    /\ attempts' = 0
    /\ interval' = TRUE
    /\ promise' = [state |-> "pending", value |-> Null]
    /\ UNCHANGED <<server, auth, rateVars, inflight, answers>>

\* the interval timer fires: attempts++ and the status request is sent
IntervalFires ==
    /\ interval
    /\ attempts < MaxTicks
    /\ attempts' = attempts + 1
    /\ inflight' = inflight + 1
    /\ UNCHANGED <<server, auth, rateVars, maxAttempts, interval, answers, promise>>

\* the await of one status request is over and the rest of the callback
\* runs
StatusAnswered(a) ==
    /\ inflight > 0
    /\ inflight' = inflight - 1
    /\ answers' = Append(answers, a)
    /\ IF a = "error"
         THEN /\ interval' = FALSE
              /\ promise' = Settle(promise, "rejected", "error")
       ELSE IF a \in {"completed", "failed"}
         THEN /\ interval' = FALSE
              /\ promise' = Settle(promise, "resolved", a)
       ELSE IF attempts >= maxAttempts
         THEN /\ interval' = FALSE
              /\ promise' = Settle(promise, "rejected", TimeoutMessage)
       ELSE UNCHANGED <<interval, promise>>
    /\ UNCHANGED <<server, auth, rateVars, maxAttempts, attempts>>

\* the statuses handed to onUpdate so far: onUpdate(status) runs after every
\* await of getTranslationStatus that did not throw
OnUpdateCalls == SelectSeq(answers, LAMBDA a : a # "error")

PollNext ==
    \/ \E n \in 1..MaxAttempts : PollJobStatus(n)
    \/ IntervalFires
    \/ \E a \in PollAnswers : StatusAnswered(a)

SpecPoll == Init /\ [][PollNext]_vars

\* the timer fires when it is due and every status request is answered
SpecPollLive ==
    SpecPoll /\ WF_vars(IntervalFires)
             /\ WF_vars(\E a \in PollAnswers : StatusAnswered(a))

\* ------------------------------------------------ authentication servers
\* The repository holds three servers that register users:
\*   "memory" - lks-auth-service/auth-server.js, users in an array
\*   "pool"   - env.d.ts, users in PostgreSQL (email UNIQUE), token blacklist
\*   "signup" - backend authController.ts behind validateRegistration,
\*              users in PostgreSQL (email UNIQUE)
AuthBuilds == {"memory", "pool", "signup"}

\* the server is started with an empty user store
StartAuthServer(b) ==
    /\ authBuild = "none"
    /\ authBuild' = b
    /\ UNCHANGED <<server, browser, users, reg, authClock, blacklist, logout, lastAuth>>

\* users.find(u => u.email === email), and rows.length > 0 of
\* SELECT id FROM users WHERE email = $1
EmailTaken(email) == \E n \in 1..Len(users) : users[n] = email

\* password.length < 8, and isLength({ min: 8 }) of validateRegistration
PasswordTooShort(password) == Len(password) < 8

Answered(r, code, error) ==
    [r EXCEPT !.pc = "done", !.code = code, !.error = error]

\* the 201 answer carries generateToken(newUser), signed at this moment
Registered(r) == [Answered(r, 201, Null) EXCEPT !.iat = authClock]

\* the answer to a request whose email is already stored
DuplicateAnswer(r) ==
    IF authBuild = "signup" THEN Answered(r, 409, "User with this email already exists")
    ELSE Answered(r, 400, "User already exists")

\* the checks that precede bcrypt.hash: the email is looked up in the store
\* as it is at this moment, then (except in signup, where the validation
\* middleware has done it) the password length
Checked(r) ==
    IF EmailTaken(r.email) THEN DuplicateAnswer(r)
    ELSE IF authBuild # "signup" /\ PasswordTooShort(r.password)
      THEN Answered(r, 400,
                    "Password must be at least 8 characters long")
    ELSE [r EXCEPT !.pc = "hash"]

\* POST /api/auth/register and POST /auth/signup arrive: the handler runs to
\* its first await.  In "memory" the lookup is synchronous and the first
\* await is bcrypt.hash; in the database builds it is the SELECT.  In
\* "signup" validateRegistration answers 400 before the handler runs.
Register(i, email, password) ==
    /\ authBuild # "none"
    /\ reg[i].pc = "idle"
    /\ \A q \in RegIds : q < i => reg[q].pc # "idle"
    /\ LET r == [reg[i] EXCEPT !.email = email, !.password = password]
       IN reg' = [reg EXCEPT ![i] =
                    IF authBuild = "signup" /\ PasswordTooShort(password)
                      THEN Answered(r, 400, "Validation failed")
                    ELSE IF authBuild = "memory" THEN Checked(r)
                    ELSE [r EXCEPT !.pc = "select"]]
    /\ UNCHANGED <<server, browser, authBuild, users, authClock, blacklist, logout, lastAuth>>

\* SELECT id FROM users WHERE email = $1 has answered
RegisterSelected(i) ==
    /\ reg[i].pc = "select"
    /\ reg' = [reg EXCEPT ![i] = Checked(reg[i])]
    /\ UNCHANGED <<server, browser, authBuild, users, authClock, blacklist, logout, lastAuth>>

\* bcrypt.hash has answered: "memory" pushes the user and answers 201, the
\* database builds send the INSERT
RegisterHashed(i) ==
    /\ reg[i].pc = "hash"
    /\ IF authBuild = "memory"
         THEN /\ users' = Append(users, reg[i].email)
              /\ reg' = [reg EXCEPT ![i] = Registered(reg[i])]
         ELSE /\ reg' = [reg EXCEPT ![i].pc = "insert"]
              /\ UNCHANGED users
    /\ UNCHANGED <<server, browser, authBuild, authClock, blacklist, logout, lastAuth>>

\* INSERT INTO users ... has answered; email is UNIQUE, so the insert of a
\* stored email raises and the catch block answers 500
RegisterInserted(i) ==
    /\ reg[i].pc = "insert"
    /\ IF EmailTaken(reg[i].email)
         THEN /\ reg' = [reg EXCEPT ![i] = Answered(reg[i], 500, "Registration failed")]
              /\ UNCHANGED users
         ELSE /\ users' = Append(users, reg[i].email)
              /\ reg' = [reg EXCEPT ![i] = Registered(reg[i])]
    /\ UNCHANGED <<server, browser, authBuild, authClock, blacklist, logout, lastAuth>>

RegisterNext ==
    \/ \E b \in AuthBuilds : StartAuthServer(b)
    \/ \E i \in RegIds, email \in {"a@lks.com", "b@lks.com"},
         password \in {"Ab#1", "Abcdef#1"} :
          Register(i, email, password)
    \/ \E i \in RegIds : RegisterSelected(i)
    \/ \E i \in RegIds : RegisterHashed(i)
    \/ \E i \in RegIds : RegisterInserted(i)

SpecRegister == Init /\ [][RegisterNext]_vars

\* ------------------------------------------------------ token blacklist
\* jwt.sign(..., { expiresIn: '24h' })
TokenHours == 24

\* verifyToken's return null
NoPayload == [kind |-> "null", userId |-> 0, exp |-> 0]

\* jwt.verify(token, SECRET_KEY): the payload of a token this server has
\* signed and that has not expired; where jwt.verify throws, the catch block
\* of verifyToken returns null
JwtVerify(t) ==
    IF t \in RegIds /\ reg[t].code = 201 /\ authClock < reg[t].iat + TokenHours
      THEN [kind |-> "payload", userId |-> t,
            exp |-> reg[t].iat + TokenHours]
      ELSE NoPayload

\* SELECT token FROM token_blacklist WHERE token = $1 AND expires_at > NOW()
Blacklisted(t) ==
    \E row \in blacklist : row.token = t /\ row.expires_at > authClock

\* what the promise returned by verifyToken(token) settles to
VerifyToken(t) == IF Blacklisted(t) THEN NoPayload ELSE JwtVerify(t)

\* the value of the call verifyToken(token) itself: verifyToken is an async
\* function, so the call returns a promise, an object without the fields of
\* the payload
VerifyTokenCall(t) == [kind |-> "promise", userId |-> 0, exp |-> 0]

\* new Date(decoded.exp * 1000): the exp of a promise is undefined, and
\* undefined * 1000 is NaN
TokenExpiration(decoded) ==
    IF decoded.kind = "payload" THEN [valid |-> TRUE, time |-> decoded.exp]
    ELSE InvalidDate

LogoutAnswered(code, error) == [logout EXCEPT !.pc = "done", !.code = code,
                                           !.error = error]

\* POST /api/auth/logout arrives and the handler runs to its await, the
\* INSERT: const decoded = verifyToken(token) is not awaited
Logout(t) ==
    /\ authBuild = "pool"
    /\ logout.pc = "idle"
    /\ LET decoded == VerifyTokenCall(t)
       IN logout' = IF t = 0
                   THEN [LogoutAnswered(401, "No token provided")
                           EXCEPT !.at = authClock]
                 ELSE IF decoded = NoPayload
                   THEN [LogoutAnswered(401, "Invalid token")
                           EXCEPT !.token = t, !.at = authClock]
                 ELSE [logout EXCEPT !.pc = "insert", !.token = t,
                                  !.at = authClock,
                                  !.expires_at = TokenExpiration(decoded)]
    /\ UNCHANGED <<server, browser, authBuild, users, reg, authClock, blacklist, lastAuth>>

\* INSERT INTO token_blacklist (token, expires_at) has answered; expires_at
\* is TIMESTAMP NOT NULL, and an Invalid Date is no timestamp: the query
\* raises and the catch block answers 500
LogoutInserted ==
    /\ logout.pc = "insert"
    /\ IF ~logout.expires_at.valid
         THEN /\ logout' = LogoutAnswered(500, "Logout failed")
              /\ UNCHANGED blacklist
         ELSE /\ blacklist' = blacklist \cup
                    {[token |-> logout.token,
                      expires_at |-> logout.expires_at.time]}
              /\ logout' = LogoutAnswered(200, Null)
    /\ UNCHANGED <<server, browser, authBuild, users, reg, authClock, lastAuth>>

\* POST /api/auth/verify and GET /api/auth/me: const decoded = await
\* verifyToken(token); me then reads the user of decoded.userId, who exists
\* since users are never deleted
VerifyOrMe(op, t) ==
    /\ authBuild = "pool"
    /\ lastAuth = NoAuth
    /\ lastAuth' =
          IF t = 0
            THEN [op |-> op, token |-> t, code |-> 401,
                  error |-> "No token provided"]
          ELSE IF VerifyToken(t) = NoPayload
            THEN [op |-> op, token |-> t, code |-> 401,
                  error |-> "Invalid token"]
          ELSE [op |-> op, token |-> t, code |-> 200, error |-> Null]
    /\ UNCHANGED <<server, browser, authBuild, users, reg, authClock, blacklist, logout>>

\* time passes on the server
AuthTick ==
    /\ authBuild = "pool"
    /\ authClock + HoursPerTick <= MaxAuthClock
    /\ authClock' = authClock + HoursPerTick
    /\ UNCHANGED <<server, browser, authBuild, users, reg, blacklist, logout, lastAuth>>

LogoutNext ==
    \/ RegisterNext
    \/ \E t \in 0..MaxRegistrations : Logout(t)
    \/ LogoutInserted
    \/ \E op \in {"verify", "me"}, t \in 0..MaxRegistrations :
          VerifyOrMe(op, t)
    \/ AuthTick

SpecLogout == Init /\ [][LogoutNext]_vars

\* ---------------------------------------------------------------- claims
Terminal == {"completed", "failed"}

AllowedTransitions ==
    {<<"none", "pending">>, <<"pending", "processing">>,
     <<"processing", "completed">>, <<"processing", "failed">>}

\* C1: every change of a job's stored status follows pending -> processing
\* -> completed or pending -> processing -> failed; no step skips
\* processing, moves backward or leaves a terminal status.
C1_StatusForwardOnly ==
    [][\A j \in JobIds :
          jobs[j].status # jobs'[j].status
            => <<jobs[j].status, jobs'[j].status>> \in AllowedTransitions]_vars

DispatchOver(j) == dpc[j][1] \in {"returned", "done", "rejected"}

\* C2: once the dispatch of a job has run to its end, whatever step of it
\* failed, the job is completed or failed.
C2_DispatchEndsTerminal ==
    \A j \in JobIds : DispatchOver(j) => jobs[j].status \in Terminal

ExecutorResolved(j) == dpc[j][1] \in {"toCompleted", "toFailed", "done", "rejected"}

C4_ExecutorRunsOnce == \A j \in JobIds : execRuns[j] <= 1

\* C5: no fault raised during dispatch terminates the server process.
C5_ProcessSurvives == ~crashed

\* C6: a job has its output file reference (translated filename and path)
\* exactly when its status is completed.
C6_OutputRefIffCompleted ==
    \A j \in JobIds :
        (jobs[j].tfile # NoPath /\ jobs[j].tpath # NoPath)
            <=> jobs[j].status = "completed"

\* C7: a job has a non-empty error detail exactly when its status is failed.
C7_ErrorDetailIffFailed ==
    \A j \in JobIds :
        (jobs[j].err # Null /\ jobs[j].err # "") <=> jobs[j].status = "failed"

\* C8: a completed job's recorded output path names a file that exists.
C8_CompletedFileExists ==
    \A j \in JobIds :
        jobs[j].status = "completed"
            => jobs[j].tpath \in Paths /\ files[jobs[j].tpath] # NoFile

\* C9: completed_at is set exactly for the jobs in a terminal status.
C9_CompletedAtIffTerminal ==
    \A j \in JobIds :
        jobs[j].completed_at # Null <=> jobs[j].status \in Terminal

NotFoundAnswer(op, c, j) ==
    Answer(op, c, j, 404, JobNotFoundMessage, Null, NoPath, NoFile)
ForbiddenAnswer(op, c, j) ==
    Answer(op, c, j, 403, ForbiddenMessage, Null, NoPath, NoFile)

\* isAdmin of downloadFile: the role in the JWT build, true in the others
Privileged(c) == IF variant = "mock" THEN Role(c) = "admin" ELSE TRUE

Outsider(c, j) ==
    /\ jobs[j].status # "none"
    /\ jobs[j].owner # c
    /\ ~Privileged(c)

NoContents(a) == a.status = Null /\ a.tfile = NoPath /\ a.bytes = NoFile

\* C10: a caller who neither owns a job nor is privileged gets no job
\* contents, whatever the job's status: unless the handler's query itself
\* failed (500), getJobStatus gives the plain not-found answer and
\* downloadFile the plain forbidden answer.
C10_OutsiderSeesNothing ==
    (lastResp.op # "none" /\ Outsider(lastResp.caller, lastResp.job))
      => /\ NoContents(lastResp)
         /\ (lastResp.op = "getJobStatus" /\ lastResp.code # 500)
              => lastResp = NotFoundAnswer("getJobStatus", lastResp.caller, lastResp.job)
         /\ (lastResp.op = "downloadFile" /\ lastResp.code # 500)
              => lastResp = ForbiddenAnswer("downloadFile", lastResp.caller, lastResp.job)

C10_Witness ==
    /\ lastResp.op = "downloadFile" /\ lastResp.code = 403
    /\ jobs[lastResp.job].status = "completed"
    /\ files[jobs[lastResp.job].tpath] # NoFile

\* the answers of the deployed build's read routes
StatusAnswer(c, j) ==
    IF variant = "mock" THEN JwtGetJobStatus(c, j) ELSE ApiKeyGetJobStatus(c, j)
DownloadAnswer(c, j) ==
    IF variant = "mock" THEN JwtDownloadFile(c, j) ELSE ApiKeyDownloadFile(c, j)

\* C11: getJobStatus and downloadFile apply one authorization rule: for an
\* existing job, getJobStatus returns the job to a caller exactly when
\* downloadFile does not answer that caller Forbidden; an administrator who
\* does not own the job is authorized by both.
C11_SameAuthorizationRule ==
    \A c \in ReadCallers, j \in JobIds :
        jobs[j].status # "none"
          => (StatusAnswer(c, j).code = 200 <=> DownloadAnswer(c, j).code # 403)

Authorized(c, j) ==
    jobs[j].status # "none" /\ (jobs[j].owner = c \/ Privileged(c))

Progress(status) ==
    IF status = "completed" THEN 100
    ELSE IF status = "processing" THEN 50
    ELSE 0

\* C14: the progress a caller sees for a job in successive getJobStatus
\* answers never decreases, also when the job fails; it is 0 while pending,
\* 50 while processing and 100 when completed.
C14_ProgressMonotonic ==
    [][\A j \in JobIds :
          (variant # "mock" /\ jobs[j].status # "none")
            => Progress(jobs'[j].status) >= Progress(jobs[j].status)]_vars

\* ---------------------------------------------------- rejected requests
\* upload.single('file') fails (fileFilter error or LIMIT_FILE_SIZE) and
\* handleUploadError answers 400; multer keeps no file of a failed upload.
UploadRejected(r, q) ==
    /\ ~crashed
    /\ InOrder(r)
    /\ hpc[r] = "idle"
    /\ ~UploadPasses(q)
    /\ req' = [req EXCEPT ![r] = q]
    /\ hpc' = [hpc EXCEPT ![r] = "done"]
    /\ resp' = [resp EXCEPT ![r] = [code |-> 400, status |-> Null]]
    /\ UNCHANGED <<variant, extAvail, sysUser, caller, jobs, dpc, derr,
                   files, execRuns, faults, crashed, lastResp, ppc, tmpScript,
                   tmpName, scripts, pyExit, browser, auth>>

\* the upload passed (a file, if the request has one, is stored) and
\* handleValidationErrors answers 400 'Validation failed'
ValidationRejected(r, q) ==
    /\ ~crashed
    /\ InOrder(r)
    /\ hpc[r] = "idle"
    /\ UploadPasses(q) /\ ~ValidationPasses(q)
    /\ req' = [req EXCEPT ![r] = q]
    /\ files' = IF q.ext # "none"
                  THEN [files EXCEPT ![UploadPath(r)] = SourceBytes(r)]
                  ELSE files
    /\ hpc' = [hpc EXCEPT ![r] = "done"]
    /\ resp' = [resp EXCEPT ![r] = [code |-> 400, status |-> Null]]
    /\ UNCHANGED <<variant, extAvail, sysUser, caller, jobs, dpc, derr,
                   execRuns, faults, crashed, lastResp, ppc, tmpScript,
                   tmpName, scripts, pyExit, browser, auth>>

\* processTranslation: if (!req.file) 400 'No file uploaded'
NoFileRejected(r, q) ==
    /\ ~crashed
    /\ InOrder(r)
    /\ hpc[r] = "idle"
    /\ q.ext = "none" /\ ValidationPasses(q)
    /\ req' = [req EXCEPT ![r] = q]
    /\ hpc' = [hpc EXCEPT ![r] = "done"]
    /\ resp' = [resp EXCEPT ![r] = [code |-> 400, status |-> Null]]
    /\ UNCHANGED <<variant, extAvail, sysUser, caller, jobs, dpc, derr,
                   files, execRuns, faults, crashed, lastResp, ppc, tmpScript,
                   tmpName, scripts, pyExit, browser, auth>>

Reject ==
    \E r \in JobIds, q \in Requests :
        \/ UploadRejected(r, q)
        \/ ValidationRejected(r, q)
        \/ NoFileRejected(r, q)

\* the lifecycle together with the requests the creation route turns down
SpecIntake == Init /\ [][Next \/ Reject]_vars

\* ------------------------------------------------------- API-key check
\* the x-api-key header of a request (Null: the header is absent) and the
\* value of process.env.TRANSLATION_API_KEY (Null: not set)
ApiKeyHeaders == {Null, "", "secret", "wrong"}
ApiKeyEnv == {Null, "secret"}

\* apiKeyAuth: if (!apiKey || apiKey !== process.env.TRANSLATION_API_KEY)
\* answers 401, else next(); 0 stands for next()
ApiKeyAuth(apiKey, env) ==
    IF apiKey = Null \/ apiKey = "" \/ apiKey # env THEN 401 ELSE 0

\* the status codes with which apiKeyAuth answers a request itself
RejectionCodes ==
    {ApiKeyAuth(apiKey, env) : apiKey \in ApiKeyHeaders, env \in ApiKeyEnv}
        \ {0}

\* the middleware of the routes of translationRoutes.ts in the order in
\* which the router runs it
ProcessTranslationRouteUploadFirst ==
    <<"upload.single", "apiKeyAuth", "handleUploadError",
      "validateTranslationJob", "processTranslation">>

ProcessTranslationRoute ==
    <<"apiKeyAuth", "upload.single", "handleUploadError",
      "validateTranslationJob", "processTranslation">>

Routes ==
    [processTranslation |-> ProcessTranslationRoute,
     getJobStatus |-> <<"apiKeyAuth", "getJobStatus">>,
     getTranslationHistory |-> <<"apiKeyAuth", "getTranslationHistory">>,
     downloadFile |-> <<"apiKeyAuth", "downloadFile">>]

\* the :jobId parameter of a route, 0 for the routes without one
RouteJobIds(op) ==
    IF op \in {"getJobStatus", "downloadFile"} THEN JobIds ELSE {0}

\* the middleware that has run when apiKeyAuth answers instead of calling
\* next(): the route up to and including apiKeyAuth
RanUntilApiKeyAuth(route) ==
    LET i == CHOOSE i \in 1..Len(route) : route[i] = "apiKeyAuth"
    IN SubSeq(route, 1, i)

\* a request to a translation route is turned down by apiKeyAuth.  A
\* creation request carries an allowed file, which upload.single stores if
\* it runs.
ApiKeyRejected(op, j) ==
    /\ ~crashed
    /\ variant # "mock"
    /\ \E code \in RejectionCodes :
          lastResp' = Answer(op, Null, j, code, "Invalid API key",
                             Null, NoPath, NoFile)
    /\ LET ran == RanUntilApiKeyAuth(Routes[op])
       IN IF \E i \in 1..Len(ran) : ran[i] = "upload.single"
            THEN \E r \in JobIds :
                    /\ hpc[r] = "idle"
                    /\ \A q \in JobIds : q < r => hpc[q] # "idle"
                    /\ files' = [files EXCEPT ![UploadPath(r)] = SourceBytes(r)]
            ELSE UNCHANGED files
    /\ UNCHANGED <<variant, extAvail, sysUser, hpc, caller, resp, jobs, dpc,
                   derr, execRuns, faults, crashed, ppc, tmpScript,
                   req, tmpName, scripts, pyExit, browser, auth>>

\* the lifecycle observed by one request that apiKeyAuth turns down
AuthNext ==
    /\ lastResp = NoRead
    /\ \/ Next
       \/ \E op \in DOMAIN Routes :
             \E j \in RouteJobIds(op) : ApiKeyRejected(op, j)

SpecAuth == Init /\ [][AuthNext]_vars

\* C15: a creation request answered with a validation error (400) leaves
\* nothing behind: no job record and no uploaded file.
C15_RejectedLeavesNothing ==
    \A r \in JobIds :
        resp[r].code = 400
          => jobs[r].status = "none" /\ files[UploadPath(r)] = NoFile

WellFormed(q) ==
    /\ q.ext = "txt" /\ q.size = 10240
    /\ q.sourceLanguage = "en" /\ q.targetLanguage = "es"
    /\ q.documentType = "general"

\* C16: a well-formed creation request (.txt file of 10 KB, "en" to "es",
\* documentType "general") is not turned down: once answered, the answer is
\* not a validation error, and with the copy-through executor a completed
\* job's output file holds the bytes of the upload.
C16_HappyPathAccepted ==
    \A r \in JobIds :
        WellFormed(req[r])
          => /\ resp[r].code # 400
             /\ (Backend = "mock" /\ jobs[r].status = "completed")
                  => files[jobs[r].tpath] = SourceBytes(r)

\* ------------------------------------------------ getTranslationHistory
\* a query parameter: <<>> when omitted, <<n>> when given as the number n
QueryValues == {<<>>} \cup {<<n>> : n \in 0..(MaxJobs + 1)}

DefaultLimit == 50

\* parseInt(req.query.x) || d: NaN and 0 are falsy
ParseIntOr(x, d) == IF x = <<>> THEN d ELSE IF x[1] = 0 THEN d ELSE x[1]

\* FROM translation_jobs [WHERE user_id = $1]: the JWT build selects the
\* caller's rows, the API-key builds select every row
HistoryRows(c) ==
    IF variant = "mock"
      THEN {j \in JobIds : jobs[j].status # "none" /\ jobs[j].owner = c}
      ELSE {j \in JobIds : jobs[j].status # "none"}

\* ORDER BY created_at DESC
OrderByCreatedDesc(S) ==
    CHOOSE s \in [1..Cardinality(S) -> S] :
        /\ \A i, k \in 1..Cardinality(S) : i < k => jobs[s[i]].created_at > jobs[s[k]].created_at

\* LIMIT $2 OFFSET $3
LimitOffset(s, limit, offset) ==
    LET rest == IF Len(s) > offset THEN Len(s) - offset ELSE 0
        n == IF limit < rest THEN limit ELSE rest
    IN [i \in 1..n |-> s[offset + i]]

\* pagination.total of the response
HistoryTotal(c, page) == Len(page)

GetTranslationHistory(c, lim, off) ==
    IF variant # "mock" /\ ~sysUser
      THEN [code |-> 404, jobs |-> <<>>, limit |-> 0, offset |-> 0, total |-> 0]
      ELSE LET limit == ParseIntOr(lim, DefaultLimit)
               offset == ParseIntOr(off, 0)
               page == LimitOffset(OrderByCreatedDesc(HistoryRows(c)), limit, offset)
           IN [code |-> 200, jobs |-> page, limit |-> limit, offset |-> offset,
               total |-> HistoryTotal(c, page)]

OwnJobs(c) == {j \in JobIds : jobs[j].status # "none" /\ jobs[j].owner = c}

\* the 1-based positions offset+1 .. offset+limit of the caller's jobs,
\* newest first, as far as they exist
ExpectedPage(c, limit, offset) ==
    LET s == OrderByCreatedDesc(OwnJobs(c))
    IN [i \in 1..Cardinality({p \in 1..Len(s) : p > offset /\ p <= offset + limit})
          |-> s[offset + i]]

\* C17: getTranslationHistory(limit, offset) returns exactly the caller's
\* jobs at positions offset .. offset+limit-1 of the caller's jobs, newest
\* first; an omitted limit counts as 50 and an omitted offset as 0.
C17_HistoryPage ==
    \A c \in ReadCallers, lim \in QueryValues, off \in QueryValues :
        GetTranslationHistory(c, lim, off).code = 200
          => GetTranslationHistory(c, lim, off).jobs
               = ExpectedPage(c, IF lim = <<>> THEN 50 ELSE lim[1],
                                 IF off = <<>> THEN 0 ELSE off[1])

\* C18: pagination.total of a history answer is the number of jobs in the
\* caller's history, whatever limit and offset were requested.
C18_TotalIsHistorySize ==
    \A c \in ReadCallers, lim \in QueryValues, off \in QueryValues :
        GetTranslationHistory(c, lim, off).code = 200
          => GetTranslationHistory(c, lim, off).total = Cardinality(OwnJobs(c))

\* a subprocess executor call that has written its script and not settled
ScriptCallRunning(t) ==
    \E j \in JobIds, k \in Invs : dpc[j][k] = "exec" /\ tmpName[j][k] = t

\* C19: once a subprocess executor call has finished, on whatever exit path
\* (success, non-zero exit, failure to spawn, exception while handling the
\* output), the temporary script written for it no longer exists: every
\* temporary script that exists belongs to a call that is still running.
C19_TempScriptRemoved ==
    \A t \in TmpNames : scripts[t].exists => ScriptCallRunning(t)

\* C20: executions of different jobs do not contend for files: while the
\* Python process of a job is running, the temporary script it was started
\* with exists and holds that job's own source and target paths, also when
\* two executions start within the same millisecond.
C20_NoContention ==
    \A j \in JobIds :
        (Backend = "python" /\ dpc[j][1] = "exec")
          => scripts[tmpName[j][1]] = [text |-> j, exists |-> TRUE]

\* C21: an executor call is reported successful only if the Python process
\* exited with status 0 and printed the success marker: a zero exit without
\* the marker, and the marker with a non-zero exit, are reported as failure.
C21_SuccessNeedsExitAndMarker ==
    pyExit.handler # "none"
      => /\ pyExit.answer = 200 => (pyExit.code = 0 /\ pyExit.marker)
         /\ (pyExit.code = 0 /\ ~pyExit.marker) => pyExit.answer = 500
         /\ (pyExit.code # 0 /\ pyExit.marker) => pyExit.answer = 500
         /\ (pyExit.handler = "translateDocument"
              => (pyExit.answer = 200
                    <=> dpc[pyExit.job][pyExit.inv] = "toCompleted"))
         /\ (pyExit.handler = "processPythonTranslation" /\ pyExit.answer # 200)
              => jobs[pyExit.job].tpath # ResultPath(pyExit.job)

C21_Witness ==
    /\ pyExit.handler = "translateDocument"
    /\ pyExit.code # 0 /\ pyExit.marker
    /\ dpc[pyExit.job][pyExit.inv] = "toFailed"

\* the remote-API executor call of job j has thrown
ApiExecutorFailed(j) == Backend = "api" /\ derr[j][1] \in ApiErrors

\* C22: in the remote-API build, a non-success status of the translation
\* request, a response without a download URL, or a failed download makes
\* the job failed and never completed: the job is not completed, and once
\* its dispatch is over it is failed with the thrown message as its error
\* detail (for a non-success response: its status and body).
C22_ApiFailureFailsJob ==
    \A j \in JobIds :
        ApiExecutorFailed(j)
          => /\ jobs[j].status # "completed"
             /\ DispatchOver(j)
                  => jobs[j].status = "failed" /\ jobs[j].err = derr[j][1]

\* the files an executor writes
OutputPaths ==
    {TranslatedPath(j) : j \in JobIds} \cup {ResultPath(j) : j \in JobIds}

\* C23: with the external capability configured (the translator script is
\* there, the API URL and key are set) no output file is a copy of an
\* upload, so no job is completed by passthrough, also after the external
\* call has failed.
C23_NoPassthroughWhenConfigured ==
    extAvail
      => \A p \in OutputPaths, r \in JobIds : files[p] # SourceBytes(r)

C23_Witness ==
    /\ extAvail
    /\ \E j \in JobIds :
          /\ jobs[j].status = "failed"
          /\ derr[j][1] \in ApiErrors
          /\ files[TranslatedPath(j)] = NoFile

\* the call of job j to the external executor (the Python process, the
\* remote API) is in progress
ExecutorPending(j) == dpc[j][1] = "exec" /\ Backend \in {"python", "api"}

TimedOut(j) ==
    jobs[j].status = "failed" /\ jobs[j].err = "execution timed out"

\* C24: no call to the external executor stays in progress forever: it
\* returns or raises, or else the job becomes failed with the error detail
\* "execution timed out".
C24_ExecutionTimesOut ==
    \A j \in JobIds : ExecutorPending(j) ~> (ExecutorResolved(j) \/ TimedOut(j))

\* C25: the error detail stored for a job is bounded whatever the executor
\* handed over: it is shorter than a large output line or response body, so
\* such a text is never stored whole.
C25_ErrorDetailBounded ==
    \A j \in JobIds : Len(jobs[j].err) < Len(LargeText)

\* the columns of a job that are written at creation only
CreationColumns(row) ==
    <<row.owner, row.source_language, row.target_language, row.orig,
      row.created_at>>

ExecutorCallOver(j) ==
    execRuns[j] >= 1 /\ dpc[j][1] \in {"toCompleted", "toFailed"}

\* C27: dispatch invokes the executor only after the processing status is
\* stored, and writes the final status only after the executor call: while
\* an executor call is in progress the stored status is not pending, and a
\* step that stores a terminal status is taken when the executor call has
\* returned or raised.
C27_ExecutorBetweenWrites ==
    /\ [](\A j \in JobIds : dpc[j][1] = "exec" => jobs[j].status # "pending")
    /\ [][\A j \in JobIds :
            (jobs[j].status \notin Terminal /\ jobs'[j].status \in Terminal)
              => ExecutorCallOver(j)]_vars

\* the grants of identifier id in the WindowMinutes that start at minute t
GrantsFrom(id, t) ==
    {i \in DOMAIN grants[id] :
        grants[id][i] >= t /\ grants[id][i] <= t + WindowMinutes}

\* C28: in every span of WindowMinutes, wherever it starts, checkRateLimit
\* returns true for at most MaxRequests calls with the same identifier.
C28_AtMostMaxRequestsPerWindow ==
    \A id \in Identifiers, t \in 0..MaxClock :
        Cardinality(GrantsFrom(id, t)) <= MaxRequests

\* C29: one call of pollJobStatus sends at most maxAttempts status
\* requests, also when requests are answered late and overlap.
C29_AtMostMaxAttemptsRequests ==
    promise.state # "none" => attempts <= maxAttempts

Settled == promise.state \in {"resolved", "rejected"}

\* the answers that decide a call: a terminal status or a failed request
Deciding == {"completed", "failed", "error"}

\* the outcome the answers received so far call for: that of the first
\* deciding answer if it is among the first maxAttempts answers, else the
\* timeout once maxAttempts answers are in
Prescribed ==
    LET first == {i \in 1..Len(answers) :
                    /\ answers[i] \in Deciding
                    /\ \A k \in 1..(i - 1) : answers[k] \notin Deciding}
        polls == {i \in 1..Len(answers) : i <= maxAttempts}
    IN IF \E i \in first : i \in polls
         THEN LET i == CHOOSE i \in first : TRUE
              IN IF answers[i] = "error"
                   THEN [state |-> "rejected", value |-> "error"]
                   ELSE [state |-> "resolved", value |-> answers[i]]
       ELSE IF Len(answers) >= maxAttempts
         THEN [state |-> "rejected", value |-> TimeoutMessage]
       ELSE [state |-> "pending", value |-> Null]

\* C30: a call of pollJobStatus settles when every status request is
\* answered; it resolves with the first terminal status it observes, rejects
\* on the first failed request, and rejects with the timeout error once
\* maxAttempts polls have come back non-terminal; once settled, the interval
\* timer is cleared and fires no more.
C30_PollSettles ==
    /\ (promise.state = "pending") ~> Settled
    /\ [](Settled => [](~interval /\ ~ENABLED IntervalFires))
    /\ []((promise.state # "none" /\ Prescribed.state # "pending")
            => promise = Prescribed)

\* C31: once the promise returned by pollJobStatus has settled, onUpdate is
\* not invoked again for that call; in particular no non-terminal status is
\* delivered to onUpdate after a terminal one.
C31_NoUpdateAfterSettle ==
    [][Settled => OnUpdateCalls' = OnUpdateCalls]_vars

\* a creation request was answered and no query, file operation or external
\* call has failed so far
AnsweredWithoutFault(r) == hpc[r] = "done" /\ faults = 0

\* C32: under API-key authentication every valid creation request creates
\* one job owned by the shared system principal, also when requests arrive
\* together while the system user does not exist yet: without a database
\* failure no request is answered with an error and no uploaded file stays
\* without a job.
C32_ConcurrentCreationsSucceed ==
    variant # "mock" =>
        \A r \in JobIds :
            AnsweredWithoutFault(r) =>
                /\ resp[r].code = 202
                /\ jobs[r].status # "none"
                /\ jobs[r].owner = SystemUser
                /\ jobs[r].orig = UploadPath(r)

C34_UniqueEmails ==
    /\ \A m, n \in 1..Len(users) : m # n => users[m] # users[n]
    /\ \A i, k \in RegIds :
          (i # k /\ reg[i].email = reg[k].email /\ reg[i].code = 201)
              => reg[k].code # 201

\* the logout request carried a token that was valid and unexpired when the
\* request arrived
LogoutWithValidToken ==
    /\ logout.token \in RegIds
    /\ reg[logout.token].code = 201
    /\ logout.at < reg[logout.token].iat + TokenHours

\* C35: in the server with the token blacklist, a logout request with a
\* valid unexpired token succeeds and records the token in the blacklist
\* with the token's own expiry time; from then on every verify and me
\* request with that token is answered 401 until the token would have
\* expired anyway.
C35_LogoutRevokesToken ==
    /\ []((logout.pc = "done" /\ LogoutWithValidToken) =>
            /\ logout.code = 200
            /\ [token |-> logout.token,
                expires_at |-> reg[logout.token].iat + TokenHours] \in blacklist)
    /\ [][(/\ logout.pc = "done" /\ LogoutWithValidToken
           /\ lastAuth = NoAuth /\ lastAuth' # NoAuth
           /\ lastAuth'.token = logout.token) => lastAuth'.code = 401]_vars

====
